---- MODULE Spec2Model ----
(***************************************************************************)
(* Verification model of yakateka's helper registry / capability cache /   *)
(* weighted fallback executor (internal/helper) and of the conversion      *)
(* pipeline resolver and executor (internal/converter/types.go).           *)
(*                                                                         *)
(* Helper paths are modelled by their rank in string order (1 < 2 < ...),  *)
(* weights by integers (tenths of the float weight in [0,1]).              *)
(***************************************************************************)
EXTENDS Integers, Sequences, FiniteSets, TLC

(***************************************************************************)
(* Bounds                                                                  *)
(***************************************************************************)
NumHelpers == 3
MaxWeight == 2
MaxInits == 2
MaxBuilds == 2
NumWorkers == 2

Helpers == 1..NumHelpers
Workers == 1..NumWorkers

(***************************************************************************)
(* internal/helper types                                                   *)
(***************************************************************************)
ModeNormal == "normal"
ModeFast == "fast"
ModeQuality == "quality"
ModeSet == {ModeNormal, ModeFast, ModeQuality}

\* formats used by the helpers of the model, in string order
HelperFormats == <<"html", "md", "pdf">>
HelperFormatSet == {HelperFormats[i] : i \in 1..Len(HelperFormats)}

\* ModeMetrics.IsSupported
IsSupported(m) == m.Speed > 0 /\ m.Quality > 0

Metric1 == [Speed |-> 1, Quality |-> 1]
Metric0 == [Speed |-> 0, Quality |-> 0]

\* ModesStruct values (omitted optional modes unmarshal to the zero metric)
NormalOnly == [Normal |-> Metric1, Fast |-> Metric0, Quality |-> Metric0]
NormalFast == [Normal |-> Metric1, Fast |-> Metric1, Quality |-> Metric0]
NormalQuality == [Normal |-> Metric1, Fast |-> Metric0, Quality |-> Metric1]
\* a descriptor entry that declares no normal mode (GetInfo does not look at the modes)
FastOnly == [Normal |-> Metric0, Fast |-> Metric1, Quality |-> Metric0]

\* what the `info` command of the three kinds of helper prints
\* (HelperInfo.Capabilities, from -> to flattened to <<from, to>>)
InfoTable ==
    << (<<"md", "pdf">> :> NormalFast) @@ (<<"md", "html">> :> NormalOnly),
       (<<"md", "pdf">> :> NormalOnly) @@ (<<"md", "html">> :> NormalQuality),
       (<<"md", "pdf">> :> NormalOnly) @@ (<<"html", "pdf">> :> FastOnly) >>

HelperInfoOf(h) == InfoTable[((h - 1) % Len(InfoTable)) + 1]

MetricsOfNormalAlways(modes, modeName) == modes.Normal

\* the metrics GenerateCache reads for a mode name (the switch at 93-100)
MetricsOf(modes, modeName) ==
    CASE modeName = ModeNormal -> modes.Normal
      [] modeName = ModeFast -> modes.Fast
      [] modeName = ModeQuality -> modes.Quality

\* helpers.weights of the configuration files explored: all weights equal, or
\* weights alternating along the helper paths (ties and inversions of path order)
WeightConfigs ==
    {[h \in Helpers |-> MaxWeight]}
    \cup {[h \in Helpers |-> ((h + s) % MaxWeight) + 1] : s \in 0..1}

Keys == {<<f, t, m>> : f \in HelperFormatSet, t \in HelperFormatSet, m \in ModeSet}

(***************************************************************************)
(* State                                                                   *)
(***************************************************************************)
VARIABLES
    weights,    \* helpers.weights of the configuration file
    registry,   \* Registry.Helpers: path -> HelperEntry
    inits,      \* number of Initialize runs so far
    pingInit,   \* helpers whose ping failed in the latest Initialize
    builds,     \* number of GenerateCache calls since the latest Initialize
    cache,      \* <<c>>: the HelperCache returned by the latest GenerateCache
    file,       \* contents of helpers.yaml (YAML tokens), <<>> when absent
    rt,         \* which process runs: "helpers", "idle", "ready", "disabled"
    live,       \* HelperConverter.cache of the convert process
    pingLoad,   \* helpers whose ping failed in LoadAndPing
    req,        \* the HelperConverter.Convert call in progress
    outExists,  \* whether a file exists at the requested output path
    failedLog,  \* history: <<from, to, helper>> of the failed attempts of this process
    converters, \* Factory.converters: the names of the registered converters
    freq,       \* the Factory.Convert call in progress
    fs,         \* the files on disk: temporary artifacts and the output file
    workers,    \* goroutines calling HelperConverter.Convert on one converter
    probe       \* the Initialize run in progress and its latest helper responses

genVars == <<registry, inits, pingInit, builds, cache>>
runVars == <<live, pingLoad, req, outExists, failedLog>>
facVars == <<converters, freq, fs>>
auxVars == <<workers, probe>>
helperVars == <<weights, registry, inits, pingInit, builds, cache, file, rt, live, pingLoad, req, outExists,
                failedLog>>
vars == <<weights, registry, inits, pingInit, builds, cache, file, rt, live, pingLoad, req, outExists,
          failedLog, converters, freq, fs, workers, probe>>

(***************************************************************************)
(* Executor: the `ping` and `info` commands of a helper.  The standard      *)
(* output of a helper is a sequence of characters (ping) or of YAML tokens  *)
(* and blanks (info).                                                       *)
(***************************************************************************)
\* An external call ends with "exit0" (exit status 0), "exit1" (a non-zero
\* exit status) or "timeout" (killed when the deadline of e.timeout expires).
IsSpace(ch) == ch \in {" ", "\n", "\t", "\r"}

RECURSIVE TrimLeft(_)
TrimLeft(str) ==
    IF str # <<>> /\ IsSpace(Head(str)) THEN TrimLeft(Tail(str)) ELSE str

RECURSIVE TrimRight(_)
TrimRight(str) ==
    IF str # <<>> /\ IsSpace(str[Len(str)]) THEN TrimRight(SubSeq(str, 1, Len(str) - 1)) ELSE str

\* strings.TrimSpace
TrimSpace(str) == TrimRight(TrimLeft(str))

Pong == <<"p", "o", "n", "g">>

PingNoTrim(exit, output) ==
    IF exit # "exit0" THEN FALSE
    ELSE IF output # Pong THEN FALSE
    ELSE TRUE

\* Executor.Ping: cmd.Output returns an error unless the helper exits with
\* status 0 before the deadline
Ping(exit, output) ==
    IF exit # "exit0" THEN FALSE
    ELSE IF TrimSpace(output) # Pong THEN FALSE
    ELSE TRUE

\* the answers to `ping` explored
PingResponses ==
    {<<"exit0", Pong>>, <<"exit0", Pong \o <<"\n">>>>, <<"exit0", <<" ">> \o Pong \o <<"\r", "\n">>>>,
     <<"exit0", <<>>>>, <<"exit0", <<"P", "O", "N", "G">>>>, <<"exit0", Pong \o <<"!">>>>,
     <<"exit0", <<"p", "o", " ", "n", "g">>>>,
     <<"exit1", Pong>>, <<"timeout", <<>>>>}

\* yaml.Unmarshal of the `info` output into HelperInfo: "{" stands for a
\* document that is not valid YAML, "name" and "capabilities" for the keys
\* of a valid one; the capabilities of helper h are those of its kind
InvalidYaml(doc) == \E i \in 1..Len(doc) : doc[i] = "{"
CapabilitiesIn(doc, h) ==
    IF \E i \in 1..Len(doc) : doc[i] = "capabilities" THEN DOMAIN HelperInfoOf(h) ELSE {}

\* Executor.GetInfo: <<info>> on success, <<>> when it returns an error
GetInfo(exit, output, h) ==
    LET outputStr == TrimSpace(output)
    IN IF exit # "exit0" THEN <<>>
       ELSE IF outputStr = <<>> THEN <<>>
       ELSE IF InvalidYaml(outputStr) THEN <<>>
       ELSE IF CapabilitiesIn(outputStr, h) = {} THEN <<>>
       ELSE <<HelperInfoOf(h)>>

\* the answers to `info` explored
InfoResponses ==
    {<<"exit0", <<"name", "\n", "capabilities", "\n">>>>, <<"exit0", <<"name", "\n">>>>,
     <<"exit0", <<>>>>, <<"exit0", <<" ", "\n">>>>, <<"exit0", <<"name", "{">>>>,
     <<"exit1", <<"name", "\n", "capabilities", "\n">>>>, <<"timeout", <<>>>>}

\* outcomes of one negotiation round of Initialize: executor.Ping fails, or
\* it succeeds and executor.GetInfo fails, or both succeed
InitOutcomes == {"pingfail", "infofail", "ok"}

\* all orders in which a Go map with key set S can be ranged over
Orders(S) == {o \in [1..Cardinality(S) -> S] : \A i, j \in DOMAIN o : i # j => o[i] # o[j]}

(***************************************************************************)
(* Registry                                                                *)
(***************************************************************************)
\* Registry.Register
RegisterEntry(path, weight) ==
    [Path |-> path, Weight |-> weight, Available |-> FALSE, Info |-> <<>>]

InitializeEntryKeepsAvailable(entry, ping, info) ==
    IF ~ping THEN [entry EXCEPT !.Available = FALSE]
    ELSE IF ~info THEN [entry EXCEPT !.Available = TRUE]
    ELSE [entry EXCEPT !.Available = TRUE, !.Info = <<HelperInfoOf(entry.Path)>>]

InitializeEntryAccumulates(entry, ping, info) ==
    IF ~ping THEN [entry EXCEPT !.Available = FALSE]
    ELSE IF ~info THEN [entry EXCEPT !.Available = FALSE]
    ELSE [entry EXCEPT !.Available = TRUE, !.Info = @ \o <<HelperInfoOf(entry.Path)>>]

\* one iteration of the loop of Registry.Initialize; ping and info are the
\* outcomes of executor.Ping and executor.GetInfo
InitializeEntry(entry, ping, info) ==
    IF ~ping THEN [entry EXCEPT !.Available = FALSE]
    ELSE IF ~info THEN [entry EXCEPT !.Available = FALSE]
    ELSE [entry EXCEPT !.Available = TRUE, !.Info = <<HelperInfoOf(entry.Path)>>]

CacheLessAscending(a, b) ==
    IF a.Weight # b.Weight THEN a.Weight < b.Weight ELSE a.Helper < b.Helper

CacheLessWeightOnly(a, b) == a.Weight > b.Weight

\* the sort.Slice comparator of GenerateCache
CacheLess(a, b) ==
    IF a.Weight # b.Weight THEN a.Weight > b.Weight ELSE a.Helper < b.Helper

RECURSIVE InsertSorted(_, _)
InsertSorted(e, s) ==
    IF s = <<>> THEN <<e>>
    ELSE IF CacheLess(e, Head(s)) THEN <<e>> \o s
    ELSE <<Head(s)>> \o InsertSorted(e, Tail(s))

RECURSIVE SortEntries(_)
SortEntries(s) ==
    IF s = <<>> THEN <<>> ELSE InsertSorted(Head(s), SortEntries(Tail(s)))

RECURSIVE CollectedUnavailableToo(_, _, _)
CollectedUnavailableToo(reg, order, key) ==
    IF order = <<>> THEN <<>>
    ELSE LET path == Head(order)
             entry == reg[path]
             pair == <<key[1], key[2]>>
             here == IF entry.Info # <<>>
                        /\ pair \in DOMAIN entry.Info[1]
                        /\ IsSupported(MetricsOf(entry.Info[1][pair], key[3]))
                     THEN <<[Helper |-> path, Weight |-> entry.Weight]>>
                     ELSE <<>>
         IN here \o CollectedUnavailableToo(reg, Tail(order), key)

\* the entries appended to conversions[key], helpers ranged over in `order`
RECURSIVE Collected(_, _, _)
Collected(reg, order, key) ==
    IF order = <<>> THEN <<>>
    ELSE LET path == Head(order)
             entry == reg[path]
             pair == <<key[1], key[2]>>
             here == IF entry.Available /\ entry.Info # <<>>
                        /\ pair \in DOMAIN entry.Info[1]
                        /\ IsSupported(MetricsOf(entry.Info[1][pair], key[3]))
                     THEN <<[Helper |-> path, Weight |-> entry.Weight]>>
                     ELSE <<>>
         IN here \o Collected(reg, Tail(order), key)

\* Registry.GenerateCache, with the helpers map ranged over in `order`
GenerateCache(reg, order) ==
    LET present == {k \in Keys : Collected(reg, order, k) # <<>>}
    IN [k \in present |-> SortEntries(Collected(reg, order, k))]

(***************************************************************************)
(* helpers.yaml: SaveCache (yaml.Marshal) and LoadCache (yaml.Unmarshal)   *)
(***************************************************************************)
\* yaml.v3 writes map keys in sorted order
YamlModes == <<ModeFast, ModeNormal, ModeQuality>>

EntryTokensReversed(list) ==
    [i \in 1..Len(list) |-> <<"entry", list[Len(list) + 1 - i].Helper, list[Len(list) + 1 - i].Weight>>]

\* the sequence a bucket is marshalled to
EntryTokens(list) ==
    [i \in 1..Len(list) |-> <<"entry", list[i].Helper, list[i].Weight>>]

RECURSIVE ModeTokens(_, _, _, _)
ModeTokens(c, f, t, i) ==
    IF i > Len(YamlModes) THEN <<>>
    ELSE LET k == <<f, t, YamlModes[i]>>
         IN (IF k \in DOMAIN c THEN <<(<<"mode", YamlModes[i]>>)>> \o EntryTokens(c[k]) ELSE <<>>)
            \o ModeTokens(c, f, t, i + 1)

RECURSIVE ToTokens(_, _, _)
ToTokens(c, f, j) ==
    IF j > Len(HelperFormats) THEN <<>>
    ELSE LET t == HelperFormats[j]
         IN (IF \E m \in ModeSet : <<f, t, m>> \in DOMAIN c
             THEN <<(<<"to", t>>)>> \o ModeTokens(c, f, t, 1) ELSE <<>>)
            \o ToTokens(c, f, j + 1)

RECURSIVE FromTokens(_, _)
FromTokens(c, i) ==
    IF i > Len(HelperFormats) THEN <<>>
    ELSE LET f == HelperFormats[i]
         IN (IF \E k \in DOMAIN c : k[1] = f
             THEN <<(<<"from", f>>)>> \o ToTokens(c, f, 1) ELSE <<>>)
            \o FromTokens(c, i + 1)

\* HelperCache.SaveCache: the document written to helpers.yaml
SaveCache(c) == <<(<<"conversions", "">>)>> \o FromTokens(c, 1)

RECURSIVE Unmarshal(_, _, _, _, _)
Unmarshal(toks, f, t, m, acc) ==
    IF toks = <<>> THEN acc
    ELSE LET tk == Head(toks)
             rest == Tail(toks)
         IN CASE tk[1] = "conversions" -> Unmarshal(rest, f, t, m, acc)
              [] tk[1] = "from" -> Unmarshal(rest, tk[2], t, m, acc)
              [] tk[1] = "to" -> Unmarshal(rest, f, tk[2], m, acc)
              [] tk[1] = "mode" ->
                    Unmarshal(rest, f, t, tk[2], (<<f, t, tk[2]>> :> <<>>) @@ acc)
              [] tk[1] = "entry" ->
                    Unmarshal(rest, f, t, m,
                        [acc EXCEPT ![<<f, t, m>>] =
                            Append(@, [Helper |-> tk[2], Weight |-> tk[3]])])

\* LoadCache: the HelperCache parsed from helpers.yaml
LoadCache(toks) == Unmarshal(toks, "", "", "", <<>>)

(***************************************************************************)
(* HelperCache at conversion time                                          *)
(***************************************************************************)
\* cache.Conversions[from][to][mode] with its comma-ok flag
Bucket(c, from, to, mode) ==
    IF <<from, to, mode>> \in DOMAIN c THEN c[<<from, to, mode>>] ELSE <<>>

FindHelpersNoFallback(c, from, to, mode) ==
    IF <<from, to, mode>> \in DOMAIN c THEN c[<<from, to, mode>>] ELSE <<>>

\* HelperCache.FindHelpers
FindHelpers(c, from, to, mode) ==
    IF <<from, to, mode>> \in DOMAIN c /\ Len(c[<<from, to, mode>>]) > 0
    THEN c[<<from, to, mode>>]
    ELSE IF mode # ModeNormal /\ <<from, to, ModeNormal>> \in DOMAIN c
    THEN c[<<from, to, ModeNormal>>]
    ELSE <<>>

WithoutReversing(list, helperPath) ==
    LET kept == SelectSeq(list, LAMBDA h : h.Helper # helperPath)
    IN [i \in 1..Len(kept) |-> kept[Len(kept) + 1 - i]]

\* the filter loop of MarkHelperFailed over one bucket
Without(list, helperPath) == SelectSeq(list, LAMBDA h : h.Helper # helperPath)

MarkHelperFailedEveryPair(c, from, to, helperPath) ==
    [k \in DOMAIN c |-> Without(c[k], helperPath)]

MarkHelperFailedNormalOnly(c, from, to, helperPath) ==
    [k \in DOMAIN c |->
        IF k = <<from, to, ModeNormal>> THEN Without(c[k], helperPath) ELSE c[k]]

MarkHelperFailedDemotes(c, from, to, helperPath) ==
    [k \in DOMAIN c |->
        IF k[1] = from /\ k[2] = to
        THEN Without(c[k], helperPath) \o SelectSeq(c[k], LAMBDA h : h.Helper = helperPath)
        ELSE c[k]]

\* HelperCache.MarkHelperFailed
MarkHelperFailed(c, from, to, helperPath) ==
    [k \in DOMAIN c |->
        IF k[1] = from /\ k[2] = to THEN Without(c[k], helperPath) ELSE c[k]]

\* HelperCache.MarkHelperGloballyFailed (called by LoadAndPing)
MarkHelperGloballyFailed(c, helperPath) ==
    [k \in DOMAIN c |-> Without(c[k], helperPath)]

HelpersIn(c) == UNION {{c[k][i].Helper : i \in 1..Len(c[k])} : k \in DOMAIN c}

RECURSIVE MarkAllGloballyFailed(_, _)
MarkAllGloballyFailed(c, failed) ==
    IF failed = {} THEN c
    ELSE LET h == CHOOSE x \in failed : TRUE
         IN MarkAllGloballyFailed(MarkHelperGloballyFailed(c, h), failed \ {h})

\* HelperConverter.SupportedInputFormats / SupportedOutputFormats: the keys
\* of Conversions and of its inner maps, whatever the buckets hold
HelperSupportedInputFormats(c) == {k[1] : k \in DOMAIN c}
HelperSupportedOutputFormats(c) == {k[2] : k \in DOMAIN c}

\* whether Factory.GetConverter returns a HelperConverter over cache c for
\* (inputFormat, outputFormat)
HelperEdge(c, inputFormat, outputFormat) ==
    /\ inputFormat \in HelperSupportedInputFormats(c)
    /\ outputFormat \in HelperSupportedOutputFormats(c)

\* helper.GetTimeout, in seconds
GetTimeout == 10
\* the default of the --timeout flag of the convert command, in seconds: the
\* deadline of the context runConvert passes down
ConversionTimeout == 300
\* the timeout of the Executor LoadAndPing hands to NewHelperConverter
ExecutorTimeout == GetTimeout
\* context.WithTimeout(ctx, e.timeout) in Executor.Convert, ctx expiring
\* after ctxTimeout: the earlier of the two deadlines applies to the call
CallTimeout(ctxTimeout, executorTimeout) ==
    IF executorTimeout < ctxTimeout THEN executorTimeout ELSE ctxTimeout

\* the mode HelperConverter.Convert derives from opts.Quality
ModeOf(quality) ==
    CASE quality = "fast" -> ModeFast
      [] quality \in {"high", "quality"} -> ModeQuality
      [] OTHER -> ModeNormal

Qualities == {"", "fast", "high"}
RequestPairs == {<<"md", "pdf">>, <<"md", "html">>, <<"pdf", "html">>}

\* a goroutine that is not inside HelperConverter.Convert
IdleWorker == [pc |-> "idle", from |-> "", to |-> "", helpers |-> <<>>, i |-> 0,
               todo |-> {}, mode |-> "", read |-> <<>>, failed |-> {}]
IdleWorkers == [w \in Workers |-> IdleWorker]

\* no Initialize run in progress, no helper probed yet
\* (result is what the latest Initialize returned: "nil", or "" while it runs)
IdleProbe == [todo |-> {}, helper |-> 0, ping |-> <<>>, pong |-> FALSE, info |-> <<>>,
              result |-> ""]

NoError == [kind |-> "none", names |-> {}, last |-> 0, count |-> 0]
\* ctx is the state of the context the caller passed: "live", or "done" once
\* it is cancelled or its deadline has expired
IdleReq == [pc |-> "idle", from |-> "", to |-> "", mode |-> "", helpers |-> <<>>,
            i |-> 0, invoked |-> <<>>, result |-> NoError, ctx |-> "live",
            inputExists |-> TRUE]

(***************************************************************************)
(* internal/converter: Factory, pipeline resolver and pipeline executor    *)
(***************************************************************************)
\* the converters registered by runConvert with their SupportedInputFormats
\* and SupportedOutputFormats
ConverterNames == {"pandoc", "djvu", "plaintext", "postscript", "libreoffice", "calibre"}

SupportedInputFormats(c) ==
    CASE c = "pandoc" -> {"docx", "odt", "rtf", "html", "md", "epub", "fb2", "json", "csv",
                          "latex", "rst"}
      [] c = "djvu" -> {"djvu"}
      [] c = "plaintext" -> {"txt"}
      [] c = "postscript" -> {"ps"}
      [] c = "libreoffice" -> {"pdf", "doc", "docx", "odt", "rtf", "ps"}
      [] c = "calibre" -> {"mobi", "epub", "fb2", "html", "txt", "pdf", "docx", "odt", "rtf"}

SupportedOutputFormats(c) ==
    CASE c = "pandoc" -> {"txt", "md", "html", "docx", "odt", "pdf", "rtf", "epub", "fb2",
                          "json", "csv", "latex", "rst"}
      [] c = "djvu" -> {"txt", "ps"}
      [] c = "plaintext" -> {"html", "md"}
      [] c = "postscript" -> {"pdf"}
      [] c = "libreoffice" -> {"pdf", "html", "txt", "docx", "odt", "rtf"}
      [] c = "calibre" -> {"mobi", "epub", "fb2", "html", "txt", "pdf", "docx", "odt", "rtf"}

\* the converters Factory.GetConverter may return for (inputFormat,
\* outputFormat): the map is ranged over in any order and the first converter
\* listing both formats is returned; empty means ErrUnsupportedConversion
GetConverter(convs, inputFormat, outputFormat) ==
    {c \in convs : inputFormat \in SupportedInputFormats(c)
                     /\ outputFormat \in SupportedOutputFormats(c)}

IntermediateFormatsHtmlFirst == <<"html", "pdf", "ps">>

IntermediateFormatsReversed == <<"html", "ps", "pdf">>

\* intermediateFormats of buildPipeline, in order of preference
IntermediateFormats == <<"pdf", "ps", "html">>

MaxSteps == 4

\* Factory.try2StepPipeline: the two steps, or <<>> when a converter is missing
Try2StepPipeline(convs, from, to, intermediate) ==
    IF GetConverter(convs, from, intermediate) = {} THEN <<>>
    ELSE IF GetConverter(convs, intermediate, to) = {} THEN <<>>
    ELSE << <<from, intermediate>>, <<intermediate, to>> >>

RECURSIVE First2Step(_, _, _, _)
First2Step(convs, from, to, i) ==
    IF i > Len(IntermediateFormats) THEN <<>>
    ELSE IF Try2StepPipeline(convs, from, to, IntermediateFormats[i]) # <<>>
    THEN Try2StepPipeline(convs, from, to, IntermediateFormats[i])
    ELSE First2Step(convs, from, to, i + 1)

\* Factory.tryMultiStepPipeline: BFS is the loop over the queue, Expand the
\* loop over the candidate next formats of the current node
RECURSIVE BFS(_, _, _, _, _)
RECURSIVE Expand(_, _, _, _, _, _, _)
BFSNoCap(convs, to, maxSteps, queue, visited) ==
    IF queue = <<>> THEN <<>>
    ELSE Expand(convs, to, maxSteps, Head(queue), <<to>> \o IntermediateFormats,
                Tail(queue), visited)

BFS(convs, to, maxSteps, queue, visited) ==
    IF queue = <<>> THEN <<>>
    ELSE LET current == Head(queue)
         IN IF current.distance >= maxSteps
            THEN BFS(convs, to, maxSteps, Tail(queue), visited)
            ELSE Expand(convs, to, maxSteps, current, <<to>> \o IntermediateFormats,
                        Tail(queue), visited)

Expand(convs, to, maxSteps, current, candidates, queue, visited) ==
    IF candidates = <<>> THEN BFS(convs, to, maxSteps, queue, visited)
    ELSE LET nextFormat == Head(candidates)
             newPath == Append(current.path, <<current.format, nextFormat>>)
         IN IF nextFormat \in visited \/ GetConverter(convs, current.format, nextFormat) = {}
            THEN Expand(convs, to, maxSteps, current, Tail(candidates), queue, visited)
            ELSE IF nextFormat = to THEN newPath
            ELSE Expand(convs, to, maxSteps, current, Tail(candidates),
                        Append(queue, [format |-> nextFormat, path |-> newPath,
                                       distance |-> current.distance + 1]),
                        visited \cup {nextFormat})

TryMultiStepPipelineNever(convs, from, to, maxSteps) == <<>>

TryMultiStepPipeline(convs, from, to, maxSteps) ==
    BFS(convs, to, maxSteps, <<[format |-> from, path |-> <<>>, distance |-> 0]>>, {from})

\* Factory.buildPipeline: the (from, to) pairs of the steps, <<>> on error
BuildPipeline(convs, from, to) ==
    IF First2Step(convs, from, to, 1) # <<>> THEN First2Step(convs, from, to, 1)
    ELSE TryMultiStepPipeline(convs, from, to, MaxSteps)

\* formats a request may name
RequestFormats == {"djvu", "doc", "ps", "pdf", "html", "md", "mobi", "txt"}

\* the temporary artifact os.CreateTemp makes for step i (fresh in every run)
TempFile(i, format) == <<"yakateka-pipeline", i, format>>
\* the input and output paths of the request, outside the temporary directory
InputPath == <<"input", 0, "">>
OutputPath == <<"output", 0, "">>
NoPath == <<"", 0, "">>
IsTemp(path) == path[1] = "yakateka-pipeline"

RemoveAllButLast(files, tempFiles) ==
    files \ {tempFiles[j] : j \in 1..(Len(tempFiles) - 1)}

\* the os.Remove loop of executePipeline after the last step
CleanupOnSuccess(files, tempFiles) ==
    files \ {tempFiles[j] : j \in 1..Len(tempFiles)}

\* the os.Remove loop of executePipeline when a step fails
CleanupOnError(files, tempFiles) ==
    files \ {tempFiles[j] : j \in 1..Len(tempFiles)}

\* (wraps is the error the returned error wraps with %w, "" when none)
NoResult == [kind |-> "none", step |-> 0, pair |-> <<>>, wraps |-> ""]
IdleFreq == [pc |-> "idle", from |-> "", to |-> "", direct |-> FALSE, pipeline |-> <<>>,
             i |-> 0, tempFiles |-> <<>>, currentInput |-> NoPath, currentOutput |-> NoPath,
             result |-> NoResult]

(***************************************************************************)
(* Actions of the `helpers` command                                        *)
(***************************************************************************)
\* the registration loop of runHelpers: one Register call per configured helper
Register ==
    /\ rt = "helpers"
    /\ inits = 0
    /\ registry = <<>>
    /\ registry' = [path \in DOMAIN weights |-> RegisterEntry(path, weights[path])]
    /\ UNCHANGED <<weights, inits, pingInit, builds, cache, file, rt>>
    /\ UNCHANGED runVars
    /\ UNCHANGED facVars
    /\ UNCHANGED auxVars

Initialize ==
    /\ rt = "helpers"
    /\ DOMAIN registry # {}
    /\ inits < MaxInits
    /\ builds = 0   \* runHelpers calls Initialize before GenerateCache
    /\ \E out \in [DOMAIN registry -> InitOutcomes] :
         /\ registry' = [p \in DOMAIN registry |->
                            InitializeEntry(registry[p], out[p] # "pingfail", out[p] = "ok")]
         /\ pingInit' = {p \in DOMAIN registry : out[p] = "pingfail"}
    /\ inits' = inits + 1
    /\ UNCHANGED <<weights, builds, cache, file, rt>>
    /\ UNCHANGED runVars
    /\ UNCHANGED facVars
    /\ UNCHANGED auxVars

DoGenerateCache ==
    /\ rt = "helpers"
    /\ inits > 0
    /\ builds < MaxBuilds
    /\ file = <<>>   \* runHelpers calls GenerateCache before SaveCache
    /\ \E order \in Orders(DOMAIN registry) :
         cache' = <<GenerateCache(registry, order)>>
    /\ builds' = builds + 1
    /\ UNCHANGED <<weights, registry, inits, pingInit, file, rt>>
    /\ UNCHANGED runVars
    /\ UNCHANGED facVars
    /\ UNCHANGED auxVars

DoSaveCache ==
    /\ rt = "helpers"
    /\ cache # <<>>
    /\ file' = SaveCache(cache[1])
    /\ UNCHANGED <<weights, rt>>
    /\ UNCHANGED genVars
    /\ UNCHANGED runVars
    /\ UNCHANGED facVars
    /\ UNCHANGED auxVars

\* the `helpers` command returns: its registry and cache are gone
HelpersExit ==
    /\ rt = "helpers"
    /\ rt' = "idle"
    /\ registry' = <<>>
    /\ inits' = 0
    /\ pingInit' = {}
    /\ builds' = 0
    /\ cache' = <<>>
    /\ UNCHANGED <<weights, file>>
    /\ UNCHANGED runVars
    /\ UNCHANGED facVars
    /\ UNCHANGED auxVars

(***************************************************************************)
(* Actions of the convert process                                          *)
(***************************************************************************)
\* LoadAndPing
LoadAndPing ==
    /\ rt = "idle"
    /\ IF file = <<>> \/ DOMAIN LoadCache(file) = {}
       THEN /\ rt' = "disabled"
            /\ UNCHANGED <<live, pingLoad>>
       ELSE LET loaded == LoadCache(file)
            IN \E failed \in SUBSET HelpersIn(loaded) :
                 /\ pingLoad' = failed
                 /\ IF failed = HelpersIn(loaded)
                    THEN rt' = "disabled" /\ live' = <<>>
                    ELSE rt' = "ready" /\ live' = MarkAllGloballyFailed(loaded, failed)
    /\ failedLog' = {}
    /\ UNCHANGED <<weights, file, req, outExists>>
    /\ UNCHANGED genVars
    /\ UNCHANGED facVars
    /\ UNCHANGED auxVars

BeginConvertLooksUpFirst ==
    /\ rt = "ready"
    /\ req.pc = "idle"
    /\ \E pair \in RequestPairs, quality \in Qualities, inputExists \in BOOLEAN, pre \in BOOLEAN :
         LET mode == ModeOf(quality)
             helpers == FindHelpers(live, pair[1], pair[2], mode)
             base == [IdleReq EXCEPT !.from = pair[1], !.to = pair[2], !.mode = mode,
                                     !.inputExists = inputExists]
         IN /\ outExists' = pre
            /\ req' = IF Len(helpers) = 0
                      THEN [base EXCEPT !.pc = "done",
                               !.result = [NoError EXCEPT !.kind = "UnsupportedConversion",
                                              !.names = {pair}]]
                      ELSE IF ~inputExists
                      THEN [base EXCEPT !.pc = "done",
                               !.result = [NoError EXCEPT !.kind = "InvalidInput"]]
                      ELSE [base EXCEPT !.pc = "trying", !.helpers = helpers, !.i = 1]
    /\ UNCHANGED <<weights, file, rt, live, pingLoad, failedLog>>
    /\ UNCHANGED genVars
    /\ UNCHANGED facVars
    /\ UNCHANGED auxVars

\* HelperConverter.Convert up to its first executor.Convert call
BeginConvert ==
    /\ rt = "ready"
    /\ req.pc = "idle"
    /\ \E pair \in RequestPairs, quality \in Qualities, inputExists \in BOOLEAN, pre \in BOOLEAN :
         LET mode == ModeOf(quality)
             helpers == FindHelpers(live, pair[1], pair[2], mode)
             base == [IdleReq EXCEPT !.from = pair[1], !.to = pair[2], !.mode = mode,
                                     !.inputExists = inputExists]
         IN /\ outExists' = pre
            /\ req' = IF ~inputExists
                      THEN [base EXCEPT !.pc = "done",
                               !.result = [NoError EXCEPT !.kind = "InvalidInput"]]
                      ELSE IF Len(helpers) = 0
                      THEN [base EXCEPT !.pc = "done",
                               !.result = [NoError EXCEPT !.kind = "UnsupportedConversion",
                                              !.names = {pair}]]
                      ELSE [base EXCEPT !.pc = "trying", !.helpers = helpers, !.i = 1]
    /\ UNCHANGED <<weights, file, rt, live, pingLoad, failedLog>>
    /\ UNCHANGED genVars
    /\ UNCHANGED facVars
    /\ UNCHANGED auxVars

\* one iteration of the loop of HelperConverter.Convert whose helper succeeds
AttemptOk ==
    /\ req.pc = "trying"
    /\ req.ctx = "live"
    /\ LET helperPath == req.helpers[req.i].Helper
       IN req' = [req EXCEPT !.pc = "done",
                     !.invoked = Append(@, [helper |-> helperPath, weight |-> req.helpers[req.i].Weight,
                                            mode |-> req.mode, ran |-> TRUE,
                                            timeout |-> CallTimeout(ConversionTimeout, ExecutorTimeout)]),
                     !.result = [NoError EXCEPT !.kind = "ok"]]
    /\ outExists' = TRUE
    /\ UNCHANGED <<weights, file, rt, live, pingLoad, failedLog>>
    /\ UNCHANGED genVars
    /\ UNCHANGED facVars
    /\ UNCHANGED auxVars

AttemptFailKeepsFirstError ==
    /\ req.pc = "trying"
    /\ LET helperPath == req.helpers[req.i].Helper
           inv == Append(req.invoked, [helper |-> helperPath, weight |-> req.helpers[req.i].Weight,
                                       mode |-> req.mode, ran |-> req.ctx = "live",
                                       timeout |-> CallTimeout(ConversionTimeout, ExecutorTimeout)])
       IN /\ live' = MarkHelperFailed(live, req.from, req.to, helperPath)
          /\ failedLog' = failedLog \cup {<<req.from, req.to, helperPath>>}
          /\ req' = IF req.i < Len(req.helpers)
                    THEN [req EXCEPT !.i = @ + 1, !.invoked = inv]
                    ELSE [req EXCEPT !.pc = "done", !.invoked = inv,
                             !.result = [kind |-> "ConversionFailed", names |-> {},
                                         last |-> inv[1].helper, count |-> Len(req.helpers)]]
    /\ \E wrote \in BOOLEAN : outExists' = (outExists \/ (wrote /\ req.ctx = "live"))
    /\ UNCHANGED <<weights, file, rt, pingLoad>>
    /\ UNCHANGED genVars
    /\ UNCHANGED facVars
    /\ UNCHANGED auxVars

AttemptFailLooksUpAgain ==
    /\ req.pc = "trying"
    /\ LET helperPath == req.helpers[req.i].Helper
           inv == Append(req.invoked, [helper |-> helperPath, weight |-> req.helpers[req.i].Weight,
                                       mode |-> req.mode, ran |-> req.ctx = "live",
                                       timeout |-> CallTimeout(ConversionTimeout, ExecutorTimeout)])
       IN /\ live' = MarkHelperFailed(live, req.from, req.to, helperPath)
          /\ failedLog' = failedLog \cup {<<req.from, req.to, helperPath>>}
          /\ req' = IF req.i < Len(req.helpers)
                    THEN [req EXCEPT !.i = @ + 1, !.invoked = inv,
                                     !.helpers = FindHelpers(MarkHelperFailed(live, req.from, req.to, helperPath),
                                                             req.from, req.to, req.mode)]
                    ELSE [req EXCEPT !.pc = "done", !.invoked = inv,
                             !.result = [kind |-> "ConversionFailed", names |-> {},
                                         last |-> helperPath, count |-> Len(req.helpers)]]
    /\ \E wrote \in BOOLEAN : outExists' = (outExists \/ (wrote /\ req.ctx = "live"))
    /\ UNCHANGED <<weights, file, rt, pingLoad>>
    /\ UNCHANGED genVars
    /\ UNCHANGED facVars
    /\ UNCHANGED auxVars

\* one iteration whose executor.Convert returns an error: the helper ran and
\* failed, having written (part of) the output file or not, or, the context
\* being done, cmd.Run returned the context's error without starting it
AttemptFail ==
    /\ req.pc = "trying"
    /\ LET helperPath == req.helpers[req.i].Helper
           inv == Append(req.invoked, [helper |-> helperPath, weight |-> req.helpers[req.i].Weight,
                                       mode |-> req.mode, ran |-> req.ctx = "live",
                                       timeout |-> CallTimeout(ConversionTimeout, ExecutorTimeout)])
       IN /\ live' = MarkHelperFailed(live, req.from, req.to, helperPath)
          /\ failedLog' = failedLog \cup {<<req.from, req.to, helperPath>>}
          /\ req' = IF req.i < Len(req.helpers)
                    THEN [req EXCEPT !.i = @ + 1, !.invoked = inv]
                    ELSE [req EXCEPT !.pc = "done", !.invoked = inv,
                             !.result = [kind |-> "ConversionFailed", names |-> {},
                                         last |-> helperPath, count |-> Len(req.helpers)]]
    /\ \E wrote \in BOOLEAN : outExists' = (outExists \/ (wrote /\ req.ctx = "live"))
    /\ UNCHANGED <<weights, file, rt, pingLoad>>
    /\ UNCHANGED genVars
    /\ UNCHANGED facVars
    /\ UNCHANGED auxVars

\* the context of the request is cancelled, or its deadline expires, while
\* HelperConverter.Convert is in its loop
DeadlineExpires ==
    /\ req.pc = "trying"
    /\ req.ctx = "live"
    /\ req' = [req EXCEPT !.ctx = "done"]
    /\ UNCHANGED <<weights, file, rt, live, pingLoad, outExists, failedLog>>
    /\ UNCHANGED genVars
    /\ UNCHANGED facVars
    /\ UNCHANGED auxVars

\* the caller has the result; the converter is ready for the next request
Return ==
    /\ req.pc = "done"
    /\ req' = IdleReq
    /\ outExists' = FALSE
    /\ UNCHANGED <<weights, file, rt, live, pingLoad, failedLog>>
    /\ UNCHANGED genVars
    /\ UNCHANGED facVars
    /\ UNCHANGED auxVars

Init ==
    /\ weights \in WeightConfigs
    /\ registry = <<>>
    /\ inits = 0
    /\ pingInit = {}
    /\ builds = 0
    /\ cache = <<>>
    /\ file = <<>>
    /\ rt = "helpers"
    /\ live = <<>>
    /\ pingLoad = {}
    /\ req = IdleReq
    /\ outExists = FALSE
    /\ failedLog = {}
    /\ workers = IdleWorkers
    /\ probe = IdleProbe
    /\ converters = {}
    /\ freq = IdleFreq
    /\ fs = {}

Next ==
    \/ Register
    \/ Initialize
    \/ DoGenerateCache
    \/ DoSaveCache
    \/ HelpersExit
    \/ LoadAndPing
    \/ BeginConvert
    \/ AttemptOk
    \/ AttemptFail
    \/ Return

Spec == Init /\ [][Next]_vars

(***************************************************************************)
(* Actions of Factory.Convert                                              *)
(***************************************************************************)
FactoryConvertPipelineOnly ==
    /\ freq.pc = "idle"
    /\ \E from \in RequestFormats, to \in RequestFormats, pre \in BOOLEAN :
         LET base == [IdleFreq EXCEPT !.from = from, !.to = to]
             steps == BuildPipeline(converters, from, to)
         IN /\ fs' = IF pre THEN {OutputPath} ELSE {}
            /\ IF FALSE
               THEN \E c \in GetConverter(converters, from, to) :
                      freq' = [base EXCEPT !.pc = "direct", !.direct = TRUE,
                                  !.pipeline = <<[FromFormat |-> from, ToFormat |-> to, Converter |-> c]>>,
                                  !.currentInput = InputPath, !.currentOutput = OutputPath]
               ELSE IF steps = <<>>
               THEN freq' = [base EXCEPT !.pc = "done",
                                !.result = [kind |-> "NoPipeline", step |-> 0, pair |-> <<from, to>>, wraps |-> ""]]
               ELSE \E cs \in [1..Len(steps) -> converters] :
                      /\ \A j \in 1..Len(steps) : cs[j] \in GetConverter(converters, steps[j][1], steps[j][2])
                      /\ freq' = [base EXCEPT !.pc = "stage", !.i = 1, !.currentInput = InputPath,
                                     !.pipeline = [j \in 1..Len(steps) |->
                                        [FromFormat |-> steps[j][1], ToFormat |-> steps[j][2],
                                         Converter |-> cs[j]]]]
    /\ UNCHANGED converters
    /\ UNCHANGED helperVars
    /\ UNCHANGED auxVars

\* Factory.Convert up to its first converter call: direct lookup, else
\* buildPipeline; each step gets one of the converters GetConverter may return
FactoryConvert ==
    /\ freq.pc = "idle"
    /\ \E from \in RequestFormats, to \in RequestFormats, pre \in BOOLEAN :
         LET base == [IdleFreq EXCEPT !.from = from, !.to = to]
             steps == BuildPipeline(converters, from, to)
         IN /\ fs' = IF pre THEN {OutputPath} ELSE {}
            /\ IF GetConverter(converters, from, to) # {}
               THEN \E c \in GetConverter(converters, from, to) :
                      freq' = [base EXCEPT !.pc = "direct", !.direct = TRUE,
                                  !.pipeline = <<[FromFormat |-> from, ToFormat |-> to, Converter |-> c]>>,
                                  !.currentInput = InputPath, !.currentOutput = OutputPath]
               ELSE IF steps = <<>>
               THEN freq' = [base EXCEPT !.pc = "done",
                                !.result = [kind |-> "NoPipeline", step |-> 0, pair |-> <<from, to>>, wraps |-> ""]]
               ELSE \E cs \in [1..Len(steps) -> converters] :
                      /\ \A j \in 1..Len(steps) : cs[j] \in GetConverter(converters, steps[j][1], steps[j][2])
                      /\ freq' = [base EXCEPT !.pc = "stage", !.i = 1, !.currentInput = InputPath,
                                     !.pipeline = [j \in 1..Len(steps) |->
                                        [FromFormat |-> steps[j][1], ToFormat |-> steps[j][2],
                                         Converter |-> cs[j]]]]
    /\ UNCHANGED converters
    /\ UNCHANGED helperVars
    /\ UNCHANGED auxVars

DirectReturnTriesPipeline ==
    /\ freq.pc = "direct"
    /\ \E outcome \in {"ok", "fail"}, wrote \in BOOLEAN :
         LET steps == BuildPipeline(converters, freq.from, freq.to)
         IN /\ freq' = IF outcome = "ok"
                        THEN [freq EXCEPT !.pc = "done", !.result = [NoResult EXCEPT !.kind = "ok"]]
                        ELSE IF steps = <<>>
                        THEN [freq EXCEPT !.pc = "done",
                                 !.result = [NoResult EXCEPT !.kind = "ConverterError"]]
                        ELSE [freq EXCEPT !.pc = "stage", !.i = 1, !.direct = FALSE,
                                 !.pipeline = [j \in 1..Len(steps) |->
                                    [FromFormat |-> steps[j][1], ToFormat |-> steps[j][2],
                                     Converter |-> CHOOSE c \in GetConverter(converters, steps[j][1],
                                                                             steps[j][2]) : TRUE]]]
            /\ fs' = IF outcome = "ok" \/ wrote THEN fs \cup {OutputPath} ELSE fs
    /\ UNCHANGED converters
    /\ UNCHANGED helperVars
    /\ UNCHANGED auxVars

\* the direct converter returns
DirectReturn ==
    /\ freq.pc = "direct"
    /\ \E outcome \in {"ok", "fail"}, wrote \in BOOLEAN :
         /\ freq' = [freq EXCEPT !.pc = "done",
                        !.result = [NoResult EXCEPT !.kind = IF outcome = "ok" THEN "ok" ELSE "ConverterError"]]
         /\ fs' = IF outcome = "ok" \/ wrote THEN fs \cup {OutputPath} ELSE fs
    /\ UNCHANGED converters
    /\ UNCHANGED helperVars
    /\ UNCHANGED auxVars

\* executePipeline, step i up to the converter call: the output path is the
\* final output for the last step, a new temporary file otherwise
StageStep ==
    /\ freq.pc = "stage"
    /\ LET step == freq.pipeline[freq.i]
           tempFile == TempFile(freq.i, step.ToFormat)
       IN IF freq.i = Len(freq.pipeline)
          THEN /\ freq' = [freq EXCEPT !.pc = "running", !.currentOutput = OutputPath]
               /\ fs' = fs
          ELSE /\ freq' = [freq EXCEPT !.pc = "running", !.currentOutput = tempFile,
                              !.tempFiles = Append(@, tempFile)]
               /\ fs' = fs \cup {tempFile}
    /\ UNCHANGED converters
    /\ UNCHANGED helperVars
    /\ UNCHANGED auxVars

\* os.CreateTemp fails for a non-final step: executePipeline returns at once
StageFails ==
    /\ freq.pc = "stage"
    /\ freq.i < Len(freq.pipeline)
    /\ freq' = [freq EXCEPT !.pc = "done",
                   !.result = [kind |-> "CreateTempFailed", step |-> freq.i, pair |-> <<>>,
                               wraps |-> "createtemp"]]
    /\ UNCHANGED <<converters, fs>>
    /\ UNCHANGED helperVars
    /\ UNCHANGED auxVars

StepOkKeepsInput ==
    /\ freq.pc = "running"
    /\ LET written == fs \cup {freq.currentOutput}
       IN IF freq.i < Len(freq.pipeline)
          THEN /\ freq' = [freq EXCEPT !.pc = "stage", !.i = @ + 1]
               /\ fs' = written
          ELSE /\ freq' = [freq EXCEPT !.pc = "done", !.currentInput = freq.currentOutput,
                              !.result = [NoResult EXCEPT !.kind = "ok"]]
               /\ fs' = CleanupOnSuccess(written, freq.tempFiles)
    /\ UNCHANGED converters
    /\ UNCHANGED helperVars
    /\ UNCHANGED auxVars

\* the converter of step i returns nil
StepOk ==
    /\ freq.pc = "running"
    /\ LET written == fs \cup {freq.currentOutput}
       IN IF freq.i < Len(freq.pipeline)
          THEN /\ freq' = [freq EXCEPT !.pc = "stage", !.i = @ + 1,
                              !.currentInput = freq.currentOutput]
               /\ fs' = written
          ELSE /\ freq' = [freq EXCEPT !.pc = "done", !.currentInput = freq.currentOutput,
                              !.result = [NoResult EXCEPT !.kind = "ok"]]
               /\ fs' = CleanupOnSuccess(written, freq.tempFiles)
    /\ UNCHANGED converters
    /\ UNCHANGED helperVars
    /\ UNCHANGED auxVars

StepFailsNamesLastHop ==
    /\ freq.pc = "running"
    /\ \E cause \in {"failed", "cancelled"}, wrote \in BOOLEAN :
         LET step == freq.pipeline[Len(freq.pipeline)]
             written == IF wrote THEN fs \cup {freq.currentOutput} ELSE fs
         IN /\ freq' = [freq EXCEPT !.pc = "done",
                           !.result = [kind |-> "PipelineStepFailed", step |-> Len(freq.pipeline),
                                       pair |-> <<step.FromFormat, step.ToFormat>>,
                                       wraps |-> cause]]
            /\ fs' = CleanupOnError(written, freq.tempFiles)
    /\ UNCHANGED converters
    /\ UNCHANGED helperVars
    /\ UNCHANGED auxVars

\* the converter of step i returns an error: it failed, or the context was
\* cancelled or timed out; it may have written (part of) its output
StepFails ==
    /\ freq.pc = "running"
    /\ \E cause \in {"failed", "cancelled"}, wrote \in BOOLEAN :
         LET step == freq.pipeline[freq.i]
             written == IF wrote THEN fs \cup {freq.currentOutput} ELSE fs
         IN /\ freq' = [freq EXCEPT !.pc = "done",
                           !.result = [kind |-> "PipelineStepFailed", step |-> freq.i,
                                       pair |-> <<step.FromFormat, step.ToFormat>>,
                                       wraps |-> cause]]
            /\ fs' = CleanupOnError(written, freq.tempFiles)
    /\ UNCHANGED converters
    /\ UNCHANGED helperVars
    /\ UNCHANGED auxVars

InitFactory ==
    /\ weights = [h \in Helpers |-> MaxWeight]
    /\ registry = <<>>
    /\ inits = 0
    /\ pingInit = {}
    /\ builds = 0
    /\ cache = <<>>
    /\ file = <<>>
    /\ rt = "helpers"
    /\ live = <<>>
    /\ pingLoad = {}
    /\ req = IdleReq
    /\ outExists = FALSE
    /\ failedLog = {}
    /\ workers = IdleWorkers
    /\ probe = IdleProbe
    /\ converters \in SUBSET ConverterNames
    /\ freq = IdleFreq
    /\ fs = {}

NextFactory ==
    \/ FactoryConvert
    \/ DirectReturn
    \/ StageStep
    \/ StageFails
    \/ StepOk
    \/ StepFails

SpecFactory == InitFactory /\ [][NextFactory]_vars

(***************************************************************************)
(* HelperConverter.Convert called from several goroutines on one converter: *)
(* HelperCache has no lock, so the statements of MarkHelperFailed of the    *)
(* goroutines interleave                                                    *)
(***************************************************************************)
WorkerPairs == {<<"md", "pdf">>, <<"md", "html">>}

\* the modes MarkHelperFailed ranges over: the keys of Conversions[from][to]
ModesOf(c, from, to) == {m \in ModeSet : <<from, to, m>> \in DOMAIN c}

InMarkHelperFailed(w) == workers[w].pc \in {"range", "filter"}

\* Convert up to its first executor.Convert call
WorkerBegin(w) ==
    /\ workers[w].pc = "idle"
    /\ \E pair \in WorkerPairs, mode \in ModeSet :
         LET helpers == FindHelpers(live, pair[1], pair[2], mode)
         IN workers' = [workers EXCEPT ![w] =
                [IdleWorker EXCEPT !.from = pair[1], !.to = pair[2], !.helpers = helpers,
                                   !.pc = IF Len(helpers) = 0 THEN "done" ELSE "calling",
                                   !.i = IF Len(helpers) = 0 THEN 0 ELSE 1]]
    /\ UNCHANGED <<live, probe>>
    /\ UNCHANGED <<weights, file, rt, pingLoad, req, outExists, failedLog>>
    /\ UNCHANGED genVars
    /\ UNCHANGED facVars

\* executor.Convert returns nil: Convert returns
WorkerHelperOk(w) ==
    /\ workers[w].pc = "calling"
    /\ workers' = [workers EXCEPT ![w].pc = "done"]
    /\ UNCHANGED <<live, probe>>
    /\ UNCHANGED <<weights, file, rt, pingLoad, req, outExists, failedLog>>
    /\ UNCHANGED genVars
    /\ UNCHANGED facVars

\* executor.Convert returns an error: MarkHelperFailed is entered and is
\* about to range over the modes of the pair
WorkerHelperFails(w) ==
    /\ workers[w].pc = "calling"
    /\ workers' = [workers EXCEPT ![w].pc = "range",
                                  ![w].todo = ModesOf(live, workers[w].from, workers[w].to)]
    /\ UNCHANGED <<live, probe>>
    /\ UNCHANGED <<weights, file, rt, pingLoad, req, outExists, failedLog>>
    /\ UNCHANGED genVars
    /\ UNCHANGED facVars

\* one iteration of `for mode, helpers := range ...`: the bucket is read
WorkerRead(w) ==
    /\ workers[w].pc = "range"
    /\ \E m \in workers[w].todo :
         workers' = [workers EXCEPT ![w].pc = "filter", ![w].mode = m,
                                    ![w].read = Bucket(live, workers[w].from, workers[w].to, m)]
    /\ UNCHANGED <<live, probe>>
    /\ UNCHANGED <<weights, file, rt, pingLoad, req, outExists, failedLog>>
    /\ UNCHANGED genVars
    /\ UNCHANGED facVars

\* the filtered copy of the bucket that was read is stored; after the last
\* mode MarkHelperFailed returns and the loop of Convert goes on
WorkerWrite(w) ==
    /\ workers[w].pc = "filter"
    /\ LET me == workers[w]
           helperPath == me.helpers[me.i].Helper
           rest == me.todo \ {me.mode}
       IN /\ live' = [k \in DOMAIN live \cup {<<me.from, me.to, me.mode>>} |->
                        IF k = <<me.from, me.to, me.mode>> THEN Without(me.read, helperPath)
                        ELSE live[k]]
          /\ workers' = [workers EXCEPT ![w] =
                IF rest # {} THEN [me EXCEPT !.pc = "range", !.todo = rest]
                ELSE [me EXCEPT !.todo = {}, !.failed = @ \cup {helperPath},
                                !.pc = IF me.i < Len(me.helpers) THEN "calling" ELSE "done",
                                !.i = IF me.i < Len(me.helpers) THEN me.i + 1 ELSE me.i]]
    /\ UNCHANGED probe
    /\ UNCHANGED <<weights, file, rt, pingLoad, req, outExists, failedLog>>
    /\ UNCHANGED genVars
    /\ UNCHANGED facVars

\* two goroutines are inside MarkHelperFailed for the same pair: the Go
\* runtime may detect the unsynchronised map accesses and end the process
WorkerFatal ==
    /\ \E w1, w2 \in Workers :
         /\ w1 # w2
         /\ InMarkHelperFailed(w1) /\ InMarkHelperFailed(w2)
         /\ workers[w1].from = workers[w2].from /\ workers[w1].to = workers[w2].to
    /\ workers' = [w \in Workers |-> [workers[w] EXCEPT !.pc = "fatal"]]
    /\ UNCHANGED <<live, probe>>
    /\ UNCHANGED <<weights, file, rt, pingLoad, req, outExists, failedLog>>
    /\ UNCHANGED genVars
    /\ UNCHANGED facVars

\* the converter LoadAndPing returns when every helper answered its pings
InitConcurrent ==
    /\ weights \in WeightConfigs
    /\ registry = <<>>
    /\ inits = 0
    /\ pingInit = {}
    /\ builds = 0
    /\ cache = <<>>
    /\ file = SaveCache(GenerateCache(
                  [p \in Helpers |-> InitializeEntry(RegisterEntry(p, weights[p]), TRUE, TRUE)],
                  CHOOSE o \in Orders(Helpers) : TRUE))
    /\ rt = "ready"
    /\ live = LoadCache(file)
    /\ pingLoad = {}
    /\ req = IdleReq
    /\ outExists = FALSE
    /\ failedLog = {}
    /\ workers = IdleWorkers
    /\ probe = IdleProbe
    /\ converters = {}
    /\ freq = IdleFreq
    /\ fs = {}

NextConcurrent ==
    \/ \E w \in Workers : WorkerBegin(w)
    \/ \E w \in Workers : WorkerHelperOk(w)
    \/ \E w \in Workers : WorkerHelperFails(w)
    \/ \E w \in Workers : WorkerRead(w)
    \/ \E w \in Workers : WorkerWrite(w)
    \/ WorkerFatal

SpecConcurrent == InitConcurrent /\ [][NextConcurrent]_vars

(***************************************************************************)
(* HelperConverter.Convert under a context that can be cancelled or reach   *)
(* its deadline while the call is in its loop                               *)
(***************************************************************************)
\* a convert process after LoadAndPing, every helper registered and reachable
InitCancel ==
    /\ weights \in WeightConfigs
    /\ registry = <<>>
    /\ inits = 0
    /\ pingInit = {}
    /\ builds = 0
    /\ cache = <<>>
    /\ file = SaveCache(GenerateCache(
                  [p \in Helpers |-> InitializeEntry(RegisterEntry(p, weights[p]), TRUE, TRUE)],
                  CHOOSE o \in Orders(Helpers) : TRUE))
    /\ rt = "ready"
    /\ live = LoadCache(file)
    /\ pingLoad = {}
    /\ req = IdleReq
    /\ outExists = FALSE
    /\ failedLog = {}
    /\ workers = IdleWorkers
    /\ probe = IdleProbe
    /\ converters = {}
    /\ freq = IdleFreq
    /\ fs = {}

NextCancel ==
    \/ BeginConvert
    \/ AttemptOk
    \/ AttemptFail
    \/ DeadlineExpires
    \/ Return

SpecCancel == InitCancel /\ [][NextCancel]_vars

(***************************************************************************)
(* Registry.Initialize helper by helper, with the answers of the helpers    *)
(***************************************************************************)
\* Initialize is called: its loop will range over every registered helper
InitializeBegin ==
    /\ rt = "helpers"
    /\ DOMAIN registry # {}
    /\ probe.todo = {}
    /\ probe' = [probe EXCEPT !.todo = DOMAIN registry, !.result = ""]
    /\ UNCHANGED workers
    /\ UNCHANGED helperVars
    /\ UNCHANGED facVars

\* what Initialize returns once its loop has ranged over every helper
InitializeResult(todo) == IF todo = {} THEN "nil" ELSE ""

InitializeHelperAbortsOnFailure ==
    /\ \E path \in probe.todo, ping \in PingResponses :
         IF Ping(ping[1], ping[2])
         THEN \E info \in InfoResponses :
                /\ registry' = [registry EXCEPT ![path] =
                      InitializeEntry(@, TRUE, GetInfo(info[1], info[2], path) # <<>>)]
                /\ probe' = [todo |-> probe.todo \ {path}, helper |-> path, ping |-> ping,
                             pong |-> TRUE, info |-> info,
                             result |-> InitializeResult(probe.todo \ {path})]
         ELSE /\ registry' = [registry EXCEPT ![path] = InitializeEntry(@, FALSE, FALSE)]
              /\ probe' = [todo |-> {}, helper |-> path, ping |-> ping,
                           pong |-> FALSE, info |-> <<>>, result |-> "error"]
    /\ UNCHANGED workers
    /\ UNCHANGED <<weights, inits, pingInit, builds, cache, file, rt>>
    /\ UNCHANGED runVars
    /\ UNCHANGED facVars

\* one iteration of the loop of Initialize, the map ranged over in any
\* order: Ping, then GetInfo unless the ping failed; after the last
\* iteration Initialize returns nil
InitializeHelper ==
    /\ \E path \in probe.todo, ping \in PingResponses :
         IF Ping(ping[1], ping[2])
         THEN \E info \in InfoResponses :
                /\ registry' = [registry EXCEPT ![path] =
                      InitializeEntry(@, TRUE, GetInfo(info[1], info[2], path) # <<>>)]
                /\ probe' = [todo |-> probe.todo \ {path}, helper |-> path, ping |-> ping,
                             pong |-> TRUE, info |-> info,
                             result |-> InitializeResult(probe.todo \ {path})]
         ELSE /\ registry' = [registry EXCEPT ![path] = InitializeEntry(@, FALSE, FALSE)]
              /\ probe' = [todo |-> probe.todo \ {path}, helper |-> path, ping |-> ping,
                           pong |-> FALSE, info |-> <<>>,
                           result |-> InitializeResult(probe.todo \ {path})]
    /\ UNCHANGED workers
    /\ UNCHANGED <<weights, inits, pingInit, builds, cache, file, rt>>
    /\ UNCHANGED runVars
    /\ UNCHANGED facVars

InitProbe ==
    /\ weights = [h \in Helpers |-> MaxWeight]
    /\ registry = <<>>
    /\ inits = 0
    /\ pingInit = {}
    /\ builds = 0
    /\ cache = <<>>
    /\ file = <<>>
    /\ rt = "helpers"
    /\ live = <<>>
    /\ pingLoad = {}
    /\ req = IdleReq
    /\ outExists = FALSE
    /\ failedLog = {}
    /\ workers = IdleWorkers
    /\ probe = IdleProbe
    /\ converters = {}
    /\ freq = IdleFreq
    /\ fs = {}

NextProbe ==
    \/ Register
    \/ InitializeBegin
    \/ InitializeHelper

SpecProbe == InitProbe /\ [][NextProbe]_vars

(***************************************************************************)
(* Properties of the helper registry, cache and fallback executor          *)
(***************************************************************************)
ListHelpers(list) == {list[i].Helper : i \in 1..Len(list)}
BucketHelpers(c, from, to, mode) == ListHelpers(Bucket(c, from, to, mode))
InvokedHelpers == {req.invoked[i].helper : i \in 1..Len(req.invoked)}

\* C1: within one Convert call the helpers are invoked by weight descending
\* and, for equal weights, by ascending helper path, and every candidate not
\* yet invoked ranks after every helper already invoked.
C1_AttemptOrder ==
    /\ \A i, j \in 1..Len(req.invoked) :
          i < j => \/ req.invoked[i].weight > req.invoked[j].weight
                   \/ /\ req.invoked[i].weight = req.invoked[j].weight
                      /\ req.invoked[i].helper < req.invoked[j].helper
    /\ \A i \in 1..Len(req.invoked) : \A j \in (Len(req.invoked) + 1)..Len(req.helpers) :
          \/ req.invoked[i].weight > req.helpers[j].Weight
          \/ /\ req.invoked[i].weight = req.helpers[j].Weight
             /\ req.invoked[i].helper < req.helpers[j].Helper

C1_Witness ==
    /\ Len(req.invoked) >= 3
    /\ \E i \in 1..(Len(req.invoked) - 1) : req.invoked[i].weight = req.invoked[i + 1].weight
    /\ \E i \in 1..(Len(req.invoked) - 1) : req.invoked[i].weight > req.invoked[i + 1].weight

\* the step in which a Convert call with an existing input looks up its helpers
LooksUp == req.pc = "idle" /\ req'.pc # "idle" /\ req'.result.kind # "InvalidInput"

C3_FailureIsolation ==
    [][(rt = "ready" /\ rt' = "ready") =>
          /\ DOMAIN live' = DOMAIN live
          /\ \A k \in DOMAIN live :
                (k[1] # req.from \/ k[2] # req.to) => live'[k] = live[k]]_vars

C3_Witness ==
    /\ req.pc = "done" /\ req.from = "md" /\ req.to = "pdf"
    /\ req.result.kind = "ConversionFailed"
    /\ \E x \in InvokedHelpers :
          /\ x \notin BucketHelpers(live, "md", "pdf", ModeNormal)
          /\ x \in BucketHelpers(live, "md", "html", ModeNormal)

\* C4: a cache built by GenerateCache lists no helper whose ping failed in
\* the latest Initialize, and the cache of the convert process lists no
\* helper whose ping failed in LoadAndPing, nor is such a helper invoked.
C4_GlobalExclusion ==
    [][/\ (builds' = builds + 1) => HelpersIn(cache'[1]) \cap pingInit' = {}
       /\ (rt' = "ready") => (HelpersIn(live') \cup {req'.invoked[i].helper : i \in 1..Len(req'.invoked)})
                                \cap pingLoad' = {}]_vars

C4_Witness ==
    /\ builds > 0
    /\ cache[1] # <<>>
    /\ \E p \in pingInit : registry[p].Info # <<>>

\* C5: when every candidate failed, the error names the requested pair and no
\* file exists at the requested output path.
C5_Exhaustion ==
    (req.pc = "done" /\ req.result.kind = "ConversionFailed") =>
        /\ <<req.from, req.to>> \in req.result.names
        /\ ~outExists

\* C6: a second GenerateCache from an unchanged registry returns the same
\* cache, whatever the order in which the helpers map is ranged over.
C6_RebuildIdempotent ==
    [][(builds >= 1 /\ builds' = builds + 1) => cache' = cache]_vars

C6_Witness ==
    /\ builds = 2
    /\ \E k \in DOMAIN cache[1] : \E i \in 1..(Len(cache[1][k]) - 1) :
          cache[1][k][i].Weight = cache[1][k][i + 1].Weight

\* C7: the cache parsed back from the file written by SaveCache equals the
\* in-memory cache it was written from, bucket by bucket and in order.
C7_RoundTrip ==
    [][(file' # file) =>
          /\ DOMAIN LoadCache(file') = DOMAIN cache[1]
          /\ \A k \in DOMAIN cache[1] : LoadCache(file')[k] = cache[1][k]
          /\ \A pair \in RequestPairs : \A m \in ModeSet :
                FindHelpers(LoadCache(file'), pair[1], pair[2], m)
                    = FindHelpers(cache[1], pair[1], pair[2], m)]_vars

C7_Witness ==
    /\ file # <<>> /\ cache # <<>>
    /\ Len(file) > 1
    /\ \E k \in DOMAIN cache[1] : Len(cache[1][k]) >= 2
    /\ \A k \in DOMAIN cache[1] : LoadCache(file)[k] = cache[1][k]

\* a bucket in the order of the sort.Slice comparator of GenerateCache
SortedBucket(list) ==
    \A i, j \in 1..Len(list) :
        i < j => \/ list[i].Weight > list[j].Weight
                 \/ list[i].Weight = list[j].Weight /\ list[i].Helper < list[j].Helper

AllSorted(c) == \A k \in DOMAIN c : SortedBucket(c[k])

\* C11: every bucket of the cache returned by GenerateCache, of the cache
\* parsed back from helpers.yaml and of the live cache of the convert process
\* (after the exclusions of LoadAndPing and of any failed conversions) is
\* sorted by weight descending, then helper path ascending.
C11_BucketsSorted ==
    /\ cache # <<>> => AllSorted(cache[1])
    /\ file # <<>> => AllSorted(LoadCache(file))
    /\ rt = "ready" => AllSorted(live)

C11_Witness ==
    /\ rt = "ready" /\ pingLoad # {}
    /\ req.pc = "trying" /\ Len(req.invoked) >= 1
    /\ Len(Bucket(live, req.from, req.to, ModeNormal)) < Len(Bucket(LoadCache(file), req.from, req.to, ModeNormal))
    /\ \E k \in DOMAIN live : Len(live[k]) >= 2 /\ live[k][1].Weight = live[k][2].Weight

\* C12: when two goroutines have each returned from MarkHelperFailed for
\* the same pair, none of the helpers they marked is in any bucket of that pair.
C12_NoLostRemoval ==
    \A w1, w2 \in Workers :
        (/\ w1 # w2
         /\ workers[w1].pc # "fatal"
         /\ workers[w1].from = workers[w2].from /\ workers[w1].to = workers[w2].to
         /\ workers[w1].failed # {} /\ workers[w2].failed # {}) =>
            \A x \in workers[w1].failed \cup workers[w2].failed : \A m \in ModeSet :
                x \notin BucketHelpers(live, workers[w1].from, workers[w1].to, m)

\* C13: a helper that failed a conversion for (from, to) is in no mode bucket
\* of that pair from then on, and no later attempt for (from, to), whatever
\* the requested mode, invokes it.
C13_NoRetryAfterFailure ==
    [][/\ \A e \in failedLog' : \A m \in ModeSet :
             e[3] \notin BucketHelpers(live', e[1], e[2], m)
       /\ Len(req'.invoked) > Len(req.invoked) =>
             <<req.from, req.to, req'.invoked[Len(req'.invoked)].helper>> \notin failedLog]_vars

C13_Witness ==
    /\ req.from = "md" /\ req.to = "pdf" /\ req.mode = ModeFast
    /\ Len(req.invoked) >= 1
    /\ \E e \in failedLog :
          /\ e[1] = req.from /\ e[2] = req.to
          /\ e[3] \notin InvokedHelpers
          /\ <<"md", "pdf">> \in DOMAIN HelperInfoOf(e[3])
          /\ IsSupported(HelperInfoOf(e[3])[<<"md", "pdf">>].Fast)

\* C15: the converter over the live cache is offered for the edge u -> v
\* exactly when the cache lists at least one helper for (u, v, normal).
C15_ExactEdges ==
    (rt = "ready" /\ pingLoad = {}) =>
        \A u, v \in HelperFormatSet :
            HelperEdge(live, u, v) <=> Len(FindHelpers(live, u, v, ModeNormal)) > 0

\* the output is `pong` between any leading and trailing white space
BodyIsPong(output) ==
    \E i, j \in 0..Len(output) :
        /\ i <= j
        /\ SubSeq(output, i + 1, j) = Pong
        /\ \A k \in 1..i : IsSpace(output[k])
        /\ \A k \in (j + 1)..Len(output) : IsSpace(output[k])

\* C17: the latest ping reported available exactly when the helper exited
\* with status 0 and its trimmed output is `pong`; otherwise its entry is
\* unavailable, no descriptor was asked for and Initialize goes on.
C17_PingIffPong ==
    probe.helper # 0 =>
        /\ probe.pong <=> (probe.ping[1] = "exit0" /\ BodyIsPong(probe.ping[2]))
        /\ ~probe.pong => (~registry[probe.helper].Available /\ probe.info = <<>>)
        /\ rt = "helpers"

C17_Witness ==
    /\ probe.helper # 0 /\ probe.pong
    /\ probe.ping[2] # Pong
    /\ probe.todo # {}

\* the `info` answer is a successful describe: exit status 0 and a valid
\* document with at least one format pair
InfoDescribes(info, h) ==
    /\ info # <<>>
    /\ info[1] = "exit0"
    /\ \E i \in 1..Len(info[2]) : info[2][i] = "capabilities"
    /\ \A i \in 1..Len(info[2]) : info[2][i] # "{"
    /\ DOMAIN HelperInfoOf(h) # {}

HelperProbed == probe'.todo # probe.todo /\ probe'.todo \subseteq probe.todo

HelperSupportsMode(h, from, to, mode) ==
    /\ <<from, to>> \in DOMAIN HelperInfoOf(h)
    /\ IsSupported(MetricsOf(HelperInfoOf(h)[<<from, to>>], mode))

\* C19: a helper that does not support the requested mode for the pair is
\* invoked with mode `normal`.
C19_FallbackRunsNormal ==
    \A i \in 1..Len(req.invoked) :
        ~HelperSupportsMode(req.invoked[i].helper, req.from, req.to, req.mode) =>
            req.invoked[i].mode = ModeNormal

\* C20: the candidates of a Convert call are the list FindHelpers returned
\* when the call started and stay that list; every attempt invokes the next
\* candidate of it, so the helpers invoked are a prefix of the list without
\* repetition; a success ends the call and changes no bucket; nothing is
\* invoked once the call has its result.
C20_PrefixOfSnapshot ==
    [][/\ (req.pc = "idle" /\ req'.pc = "trying") =>
             /\ req'.helpers = FindHelpers(live, req'.from, req'.to, req'.mode)
             /\ req'.invoked = <<>>
       /\ (req.pc = "trying" /\ req'.invoked = req.invoked) =>
             (req'.helpers = req.helpers /\ req'.i = req.i /\ req'.pc = "trying" /\ live' = live)
       /\ (req.pc = "trying" /\ req'.invoked # req.invoked) =>
             /\ req'.helpers = req.helpers
             /\ Len(req'.invoked) = Len(req.invoked) + 1
             /\ Len(req'.invoked) <= Len(req'.helpers)
             /\ \A j \in 1..Len(req'.invoked) : req'.invoked[j].helper = req'.helpers[j].Helper
             /\ \A j, k \in 1..Len(req'.invoked) :
                   j # k => req'.invoked[j].helper # req'.invoked[k].helper
             /\ req'.pc = "trying" => req'.i = Len(req'.invoked) + 1
             /\ req'.result.kind = "ok" => (req'.pc = "done" /\ live' = live)
             /\ req'.result.kind = "ConversionFailed" => Len(req'.invoked) = Len(req'.helpers)
       /\ req.pc = "done" => req'.invoked = <<>>]_vars

C20_Witness ==
    /\ req.pc = "done" /\ req.result.kind = "ok"
    /\ Len(req.invoked) = 2
    /\ Len(req.helpers) = 3
    /\ req.invoked[2].helper \in BucketHelpers(live, req.from, req.to, ModeNormal)
    /\ req.invoked[1].helper \notin BucketHelpers(live, req.from, req.to, ModeNormal)

\* C21: when every candidate failed, the error returned is built from the
\* error of the last candidate of the list, which is the last helper invoked.
C21_LastError ==
    (req.pc = "done" /\ req.result.kind = "ConversionFailed") =>
        /\ req.result.last = req.helpers[Len(req.helpers)].Helper
        /\ req.result.last = req.invoked[Len(req.invoked)].helper

C21_Witness ==
    /\ req.pc = "done" /\ req.result.kind = "ConversionFailed"
    /\ Len(req.invoked) >= 2
    /\ req.result.last # req.invoked[1].helper

\* C22: when a fast or quality request ends in ConversionFailed, every helper
\* still listed in a bucket of the pair was invoked by the request.
C22_AllViableTried ==
    (req.pc = "done" /\ req.result.kind = "ConversionFailed" /\ req.mode # ModeNormal) =>
        \A m \in ModeSet : BucketHelpers(live, req.from, req.to, m) \subseteq InvokedHelpers

RECURSIVE IsSubsequence(_, _)
IsSubsequence(s, t) ==
    IF s = <<>> THEN TRUE
    ELSE IF t = <<>> THEN FALSE
    ELSE IF Head(s) = Head(t) THEN IsSubsequence(Tail(s), Tail(t))
    ELSE IsSubsequence(s, Tail(t))

Shrunk(c, d) ==
    /\ DOMAIN c \subseteq DOMAIN d
    /\ \A k \in DOMAIN c : IsSubsequence(c[k], d[k])

\* C23: in a convert process the live cache only shrinks: after every step
\* its buckets are subsequences of the buckets loaded from helpers.yaml and of
\* the buckets before the step, and it has no key that was not there before.
C23_OnlyShrinks ==
    [][rt' = "ready" =>
          /\ Shrunk(live', LoadCache(file'))
          /\ rt = "ready" => Shrunk(live', live)]_vars

C23_Witness ==
    /\ rt = "ready"
    /\ req.pc = "done"
    /\ Cardinality(failedLog) >= 2
    /\ \E k \in DOMAIN live : live[k] # <<>> /\ Len(live[k]) < Len(LoadCache(file)[k])

\* C24: a helper leaves a bucket of a pair during a request only if the
\* request actually ran it for that pair and it failed.
C24_RemovedOnlyAfterRun ==
    [][(rt = "ready" /\ rt' = "ready") =>
          \A k \in DOMAIN live : \A h \in ListHelpers(live[k]) \ ListHelpers(live'[k]) :
              \E i \in 1..Len(req'.invoked) :
                  /\ req'.invoked[i].helper = h
                  /\ req'.invoked[i].ran
                  /\ req'.from = k[1] /\ req'.to = k[2]]_vars

\* whether GenerateCache has to list registry entry p under key k
Eligible(p, k) ==
    /\ registry[p].Available
    /\ registry[p].Info # <<>>
    /\ <<k[1], k[2]>> \in DOMAIN registry[p].Info[1]
    /\ IsSupported(MetricsOf(registry[p].Info[1][<<k[1], k[2]>>], k[3]))

Occurrences(list, p) == Cardinality({i \in 1..Len(list) : list[i].Helper = p})

\* C25: the bucket of (from,to,mode) in a built cache lists {helper, weight}
\* exactly for the available entries with a descriptor whose metric for the
\* pair in that mode is supported, each of them once; a helper offering only
\* normal for a pair is in no fast or quality bucket of the pair.
C25_ExactMembership ==
    cache # <<>> =>
        \A k \in Keys :
            LET list == Bucket(cache[1], k[1], k[2], k[3])
            IN /\ \A p \in DOMAIN registry :
                     /\ Eligible(p, k) <=>
                            \E i \in 1..Len(list) :
                                list[i] = [Helper |-> p, Weight |-> registry[p].Weight]
                     /\ Occurrences(list, p) <= 1
               /\ ListHelpers(list) \subseteq DOMAIN registry
               /\ k[3] # ModeNormal =>
                     \A p \in ListHelpers(list) :
                         registry[p].Info[1][<<k[1], k[2]>>] # NormalOnly

C25_Witness ==
    /\ cache # <<>>
    /\ \E p \in DOMAIN registry : ~registry[p].Available /\ registry[p].Info # <<>>
    /\ \E p \in DOMAIN registry :
          /\ p \in BucketHelpers(cache[1], "md", "pdf", ModeNormal)
          /\ p \notin BucketHelpers(cache[1], "md", "pdf", ModeFast)
          /\ BucketHelpers(cache[1], "md", "pdf", ModeFast) # {}

\* C26: in a built cache every helper listed in the fast or quality bucket
\* of a pair is also listed in the normal bucket of the pair.
C26_NormalMandatory ==
    cache # <<>> =>
        \A f \in HelperFormatSet, t \in HelperFormatSet, m \in {ModeFast, ModeQuality} :
            BucketHelpers(cache[1], f, t, m) \subseteq BucketHelpers(cache[1], f, t, ModeNormal)

\* C27: every iteration of Initialize, whatever the helper answered, changes
\* the entry of that helper only and leaves the other helpers of the run to
\* be negotiated with; when none is left Initialize has returned nil.
C27_NegotiatesWithAll ==
    [][HelperProbed =>
          /\ DOMAIN registry' = DOMAIN registry
          /\ \A q \in DOMAIN registry \ {probe'.helper} : registry'[q] = registry[q]
          /\ probe'.todo = probe.todo \ {probe'.helper}
          /\ probe'.result = (IF probe'.todo = {} THEN "nil" ELSE "")]_vars

C27_Witness ==
    /\ probe.result = "nil"
    /\ \E p, q, r \in DOMAIN registry :
          /\ p < q /\ q < r
          /\ ~registry[p].Available /\ registry[p].Info = <<>>
          /\ registry[q].Available
          /\ ~registry[r].Available /\ registry[r].Info # <<>>
    /\ ~probe.pong

\* the outcome of the latest Initialize for helper p, read off the registry
LastOutcome(p) ==
    IF p \in pingInit THEN "pingfail"
    ELSE IF registry[p].Available THEN "ok" ELSE "infofail"

\* C28: an Initialize run in which every helper answers as in the previous
\* run leaves the registry as it was, and the cache generated from it is the
\* cache that would have been generated before, in whatever order the maps
\* are ranged over.
C28_InitializeIdempotent ==
    [][(inits >= 1 /\ inits' = inits + 1
          /\ \A p \in DOMAIN registry : LastOutcome(p)' = LastOutcome(p)) =>
          /\ registry' = registry
          /\ LET o0 == CHOOSE o \in Orders(DOMAIN registry) : TRUE
             IN \A o \in Orders(DOMAIN registry) :
                   /\ GenerateCache(registry', o) = GenerateCache(registry, o0)
                   /\ GenerateCache(registry', o0) = GenerateCache(registry, o)]_vars

C28_Witness ==
    /\ inits = 2
    /\ \E p, q, r \in DOMAIN registry :
          /\ registry[p].Available
          /\ q \in pingInit /\ registry[q].Info = <<>>
          /\ r \notin pingInit /\ ~registry[r].Available /\ registry[r].Info = <<>>

\* C37: a request whose input file does not exist ends at once with
\* InvalidInput, whether or not a helper is listed for the pair: no helper is
\* invoked and the live cache is as it was.
C37_InvalidInputFirst ==
    [][(req.pc = "idle" /\ req'.pc # "idle" /\ ~req'.inputExists) =>
          /\ req'.pc = "done"
          /\ req'.result.kind = "InvalidInput"
          /\ req'.invoked = <<>>
          /\ live' = live
          /\ failedLog' = failedLog]_vars

C37_Witness ==
    /\ req.pc = "done" /\ ~req.inputExists
    /\ req.result.kind = "InvalidInput"
    /\ FindHelpers(live, req.from, req.to, req.mode) = <<>>
    /\ HelpersIn(live) # {}

\* C38: every convert call of a helper runs under the conversion timeout.
C38_ConversionTimeout ==
    \A i \in 1..Len(req.invoked) : req.invoked[i].timeout = ConversionTimeout

(***************************************************************************)
(* Properties of the pipeline resolver and executor                        *)
(***************************************************************************)
Shortlist == {"pdf", "ps", "html"}
PriorityRank(f) == CASE f = "pdf" -> 1 [] f = "ps" -> 2 [] f = "html" -> 3
ConverterExists(a, b) == GetConverter(converters, a, b) # {}
BothHopsExist(mid) == ConverterExists(freq.from, mid) /\ ConverterExists(mid, freq.to)
StepFormats ==
    [j \in 1..Len(freq.pipeline) |-> <<freq.pipeline[j].FromFormat, freq.pipeline[j].ToFormat>>]
TempsOnDisk == {p \in fs : IsTemp(p)}

\* C8 as stated: with no direct converter for (from, to), the request
\* resolves to from -> mid -> to for every shortlisted mid both of whose hops
\* have a converter.
C8_TwoHopViaAny ==
    \A mid \in Shortlist :
        (freq.pc # "idle" /\ ~ConverterExists(freq.from, freq.to) /\ BothHopsExist(mid)) =>
            StepFormats = << <<freq.from, mid>>, <<mid, freq.to>> >>

\* C8 amended: with no direct converter for (from, to), the request resolves
\* to from -> mid -> to for the first mid, in the order pdf, ps, html, both
\* of whose hops have a converter.
C8_TwoHopViaFirst ==
    \A mid \in Shortlist :
        (/\ freq.pc # "idle" /\ ~ConverterExists(freq.from, freq.to) /\ BothHopsExist(mid)
         /\ \A other \in Shortlist : PriorityRank(other) < PriorityRank(mid) => ~BothHopsExist(other)) =>
            StepFormats = << <<freq.from, mid>>, <<mid, freq.to>> >>

C8_Witness ==
    /\ freq.pc = "stage" /\ freq.i = 1
    /\ freq.from = "djvu" /\ freq.to = "html"
    /\ ~ConverterExists("djvu", "html")
    /\ StepFormats = << <<"djvu", "ps">>, <<"ps", "html">> >>

\* C9: after a pipeline has completed successfully no temporary artifact of
\* the run is on disk and the file at the requested output path is.
C9_CleanupOnSuccess ==
    (freq.pc = "done" /\ ~freq.direct /\ freq.result.kind = "ok") =>
        /\ TempsOnDisk = {}
        /\ OutputPath \in fs

C9_Witness ==
    /\ freq.pc = "done" /\ ~freq.direct /\ freq.result.kind = "ok"
    /\ Len(freq.pipeline) >= 3
    /\ Len(freq.tempFiles) = Len(freq.pipeline) - 1

\* C10: after any failing return of executePipeline no temporary artifact of
\* the run is on disk.
C10_CleanupOnFailure ==
    (freq.pc = "done" /\ ~freq.direct
        /\ freq.result.kind \in {"PipelineStepFailed", "CreateTempFailed"}) =>
        TempsOnDisk = {}

\* C14: a pipeline is declared failed at a hop only after every registered
\* converter supporting the hop's (from, to) has been tried for that hop.
C14_HopFallback ==
    (freq.pc = "done" /\ ~freq.direct /\ freq.result.kind = "PipelineStepFailed") =>
        GetConverter(converters, freq.result.pair[1], freq.result.pair[2])
            \subseteq {freq.pipeline[freq.result.step].Converter}

\* every format a registered converter may read or write
KnownFormats ==
    UNION {SupportedInputFormats(c) \cup SupportedOutputFormats(c) : c \in ConverterNames}

\* a chain of at most n hops from a to b whose intermediate formats are in S
RECURSIVE ChainWithin(_, _, _, _)
ChainWithin(S, a, b, n) ==
    /\ n >= 1
    /\ \/ ConverterExists(a, b)
       \/ \E mid \in S : ConverterExists(a, mid) /\ ChainWithin(S, mid, b, n - 1)

ChainBuilt == freq.pc # "idle" /\ ~freq.direct /\ Len(freq.pipeline) > 0

\* C16 as stated: when the resolver returns a chain, no chain with fewer hops
\* exists in the graph of all formats and converters.
C16_ShortestAny ==
    ChainBuilt => ~ChainWithin(KnownFormats, freq.from, freq.to, Len(freq.pipeline) - 1)

\* C16 amended: when the resolver returns a chain, it has at most MaxSteps
\* hops and no chain with fewer hops exists whose intermediate formats are
\* all among pdf, ps and html.
C16_ShortestViaShortlist ==
    ChainBuilt =>
        /\ Len(freq.pipeline) <= MaxSteps
        /\ ~ChainWithin(Shortlist, freq.from, freq.to, Len(freq.pipeline) - 1)

C16_Witness ==
    /\ ChainBuilt /\ freq.pc = "running"
    /\ Len(freq.pipeline) = 3
    /\ ChainWithin(KnownFormats, freq.from, freq.to, 2)
    /\ ~ChainWithin(Shortlist, freq.from, freq.to, 2)

NoPipelineFound == freq.pc = "done" /\ freq.result.kind = "NoPipeline"

BuiltVia == [j \in 1..(Len(freq.pipeline) - 1) |-> freq.pipeline[j].ToFormat]

\* via is the list of intermediates of a chain from freq.from to freq.to
IsChainVia(via) ==
    LET n == Len(via)
        node(j) == IF j = 0 THEN freq.from ELSE IF j = n + 1 THEN freq.to ELSE via[j]
    IN \A j \in 0..n : ConverterExists(node(j), node(j + 1))

\* s comes before t, or is t, in the order of the priority list
RECURSIVE PriorityLeq(_, _)
PriorityLeq(s, t) ==
    IF s = <<>> THEN TRUE
    ELSE IF PriorityRank(Head(s)) # PriorityRank(Head(t))
    THEN PriorityRank(Head(s)) < PriorityRank(Head(t))
    ELSE PriorityLeq(Tail(s), Tail(t))

RivalChains ==
    {via \in [1..(Len(freq.pipeline) - 1) -> Shortlist] : IsChainVia(via) /\ via # BuiltVia}

\* C30: the chain the resolver built comes first, in the order of the priority
\* list pdf, ps, html applied to its intermediates from the first on, among
\* the chains of the same length through shortlisted intermediates.
C30_PriorityTieBreak ==
    ChainBuilt => \A via \in RivalChains : PriorityLeq(BuiltVia, via)

C30_Witness ==
    /\ ChainBuilt /\ freq.pc = "stage" /\ freq.i = 1
    /\ Len(freq.pipeline) = 3
    /\ RivalChains # {}

\* C31: the search for the requested pair returns, for every cap up to
\* MaxSteps, a chain of at most that many steps (nodes at the cap's depth are
\* not expanded), and the chain the resolver built has at most MaxSteps steps.
C31_DepthCap ==
    freq.pc # "idle" =>
        /\ \A n \in 1..MaxSteps :
              Len(TryMultiStepPipeline(converters, freq.from, freq.to, n)) <= n
        /\ Len(freq.pipeline) <= MaxSteps

\* a three-step chain was built that a search capped at two steps does not return
C31_Witness ==
    /\ ChainBuilt /\ freq.pc = "done"
    /\ Len(freq.pipeline) = 3
    /\ TryMultiStepPipeline(converters, freq.from, freq.to, 2) = <<>>
    /\ TryMultiStepPipeline(converters, freq.from, freq.to, 3) = [j \in 1..3 |->
          <<freq.pipeline[j].FromFormat, freq.pipeline[j].ToFormat>>]

\* C32: a request is served by the direct converter exactly when one exists
\* for the pair, by a resolved chain otherwise; the choice and the chain never
\* change during the request; the return of the direct converter and the
\* failure of a hop end the request, and nothing is attempted after its end.
C32_NoRetry ==
    [][/\ (freq.pc = "idle" /\ freq'.pc # "idle") =>
             /\ freq'.direct <=> GetConverter(converters, freq'.from, freq'.to) # {}
             /\ freq'.direct => freq'.pc = "direct" /\ Len(freq'.pipeline) = 1
       /\ freq.pc # "idle" =>
             /\ freq'.pipeline = freq.pipeline
             /\ freq'.direct = freq.direct
             /\ freq'.from = freq.from /\ freq'.to = freq.to
       /\ freq.pc = "direct" => freq'.pc = "done"
       /\ freq'.result.kind \in {"ConverterError", "PipelineStepFailed", "NoPipeline"} =>
             freq'.pc = "done"
       /\ freq.pc = "done" => freq'.pc = "done" /\ freq'.result = freq.result]_vars

\* the direct converter failed although a chain for the pair could be resolved
C32_Witness ==
    /\ freq.pc = "done" /\ freq.direct
    /\ freq.result.kind = "ConverterError"
    /\ BuildPipeline(converters, freq.from, freq.to) # <<>>
    /\ freq.tempFiles = <<>>

\* C33: the first hop reads the input path of the request; a hop is invoked
\* with the output of the hop before it as its input, which exists by then;
\* a non-final hop writes to a temporary file created for it, named after the
\* target format of the hop, and only the final hop writes to the output
\* path of the request; the next hop is staged only when a hop has succeeded.
C33_SequentialChain ==
    [][/\ (freq.pc = "idle" /\ freq'.pc = "stage") =>
             (freq'.i = 1 /\ freq'.currentInput = InputPath)
       /\ (freq.pc = "stage" /\ freq'.pc = "running") =>
             /\ freq'.i = freq.i
             /\ freq'.currentInput = freq.currentInput
             /\ freq.i > 1 => freq'.currentInput \in fs
             /\ IF freq.i = Len(freq.pipeline)
                THEN freq'.currentOutput = OutputPath
                ELSE /\ IsTemp(freq'.currentOutput)
                     /\ freq'.currentOutput[3] = freq.pipeline[freq.i].ToFormat
                     /\ freq'.currentOutput \notin fs
                     /\ freq'.currentOutput \in fs'
       /\ (freq.pc # "idle" /\ freq'.i # freq.i) =>
             /\ freq.pc = "running" /\ freq'.pc = "stage"
             /\ freq'.i = freq.i + 1
             /\ freq'.currentInput = freq.currentOutput
             /\ freq.currentOutput \in fs'
       /\ (freq.pc = "stage" /\ freq.i > 1) => freq.currentInput = freq.tempFiles[freq.i - 1]]_vars

C33_Witness ==
    /\ freq.pc = "running"
    /\ Len(freq.pipeline) = 3 /\ freq.i = 2
    /\ freq.currentInput = freq.tempFiles[1]
    /\ freq.currentOutput = freq.tempFiles[2]
    /\ freq.tempFiles[1] # freq.tempFiles[2]

\* C34: when the converter of hop i returns an error the request ends in that
\* step with an error that carries the index i and the (from,to) of hop i and
\* wraps the error of the converter; no hop is staged or run afterwards.
C34_StepFailure ==
    [][/\ (freq.pc = "running" /\ freq'.result.kind # "ok" /\ freq'.result # freq.result) =>
             /\ freq'.pc = "done"
             /\ freq'.i = freq.i
             /\ freq'.result.kind = "PipelineStepFailed"
             /\ freq'.result.step = freq.i
             /\ freq'.result.pair = <<freq.pipeline[freq.i].FromFormat, freq.pipeline[freq.i].ToFormat>>
             /\ freq'.result.wraps \in {"failed", "cancelled"}
       /\ freq.pc = "done" => (freq'.pc = "done" /\ freq'.i = freq.i)]_vars

C34_Witness ==
    /\ freq.pc = "done"
    /\ freq.result.kind = "PipelineStepFailed"
    /\ freq.result.step = 2 /\ freq.i = 2
    /\ Len(freq.pipeline) = 4
    /\ freq.result.pair = <<freq.pipeline[2].FromFormat, freq.pipeline[2].ToFormat>>

\* C35: the step in which the execution of a chain fails leaves no file at
\* the output path of the request unless one was there before the step.
C35_NoPartialOutput ==
    [][(freq.pc \in {"stage", "running"} /\ freq'.pc = "done" /\ freq'.result.kind # "ok") =>
          (OutputPath \in fs' => OutputPath \in fs)]_vars

\* C36: a request for which neither a direct converter nor a chain exists
\* ends with an UnsupportedConversion error that names the requested pair,
\* without a converter having been bound to it or a temporary file created.
C36_Unsupported ==
    (freq.pc = "done" /\ ~freq.direct /\ Len(freq.pipeline) = 0) =>
        /\ freq.result.kind = "UnsupportedConversion"
        /\ freq.result.pair = <<freq.from, freq.to>>
        /\ freq.tempFiles = <<>>
        /\ TempsOnDisk = {}

\* the formats a built chain passes through, the source format first
ChainFormats == <<freq.pipeline[1].FromFormat>> \o
                [j \in 1..Len(freq.pipeline) |-> freq.pipeline[j].ToFormat]

\* the chain links the requested source to the requested target, hop by hop
Linked ==
    /\ Len(freq.pipeline) >= 2
    /\ freq.pipeline[1].FromFormat = freq.from
    /\ freq.pipeline[Len(freq.pipeline)].ToFormat = freq.to
    /\ \A j \in 1..(Len(freq.pipeline) - 1) :
         freq.pipeline[j].ToFormat = freq.pipeline[j + 1].FromFormat
    /\ \A j \in 1..Len(freq.pipeline) :
         freq.pipeline[j].FromFormat # freq.pipeline[j].ToFormat

\* C39: every chain the resolver returns is a well-formed simple path: at
\* least two steps, from the requested source to the requested target, each
\* step starting where the previous one ended, no step from a format to
\* itself and no format occurring twice.
C39_SimplePath ==
    ChainBuilt =>
        /\ Linked
        /\ \A j, k \in 1..Len(ChainFormats) : j # k => ChainFormats[j] # ChainFormats[k]

\* C40: the converter selected for the direct conversion and for each hop of
\* a chain is fixed by the registered converters and the pair of formats
\* alone: it is the only converter the lookup can return, whatever the order
\* in which the registered converters are ranged over.
C40_DeterministicSelection ==
    \A j \in 1..Len(freq.pipeline) :
        \A c \in GetConverter(converters, freq.pipeline[j].FromFormat,
                              freq.pipeline[j].ToFormat) :
            c = freq.pipeline[j].Converter

====
